---- MODULE Spec2Model ----
(***************************************************************************)
(* Model of the restForm jQuery extension (src/sleepyForm.js): the submit  *)
(* handler, the data collection, the error router and the lifecycle        *)
(* callbacks, over a small abstraction of the DOM and of the transport.    *)
(*                                                                         *)
(* JavaScript objects are modelled as sequences of [k, v] records in key   *)
(* insertion order; JSON texts as sequences of tokens.                     *)
(***************************************************************************)
EXTENDS Integers, Sequences, FiniteSets, TLC

VARIABLES
  settings,        \* the resolved settings object (defaults extended by options)
  formData,        \* named fields of the form, as self.serializeArray() lists them
  submitDisabled,  \* 'disabled' attribute of the [type=submit] controls
  outstanding,     \* ids of the $.ajax requests whose callback has not run yet
  sent,            \* sent[id] = the options of the $.ajax call of request id
  timers,          \* number of pending setTimeout(..., 200) callbacks
  nSubmits,        \* number of submit events handled so far
  formBlocks,      \* form-wide error blocks prepended to the form itself
  targetBlocks,    \* form-wide error blocks prepended to settings.formErrorTarget
  fieldErrors,     \* per field name: control-group 'error' class and inline spans
  handlerErrors,   \* per field name: what fieldHandlers[name].error has rendered
  cycleLog,        \* calls made by the latest run of the submit handler
  doneLog,         \* calls made by the latest run of a $.ajax callback
  response,        \* the arguments of the latest $.ajax callback
  succeeded,       \* ids of the requests settings.success was called for
  hooks            \* how often settings.beforeSubmit and settings.afterSubmit ran

vars == <<settings, formData, submitDisabled, outstanding, sent, timers, nSubmits,
          formBlocks, targetBlocks, fieldErrors, handlerErrors, cycleLog, doneLog,
          response, succeeded, hooks>>

-----------------------------------------------------------------------------
(* Bounds of the model *)

MaxSubmits == 2
MaxFields == 2
MaxKeys == 2

-----------------------------------------------------------------------------
(* JavaScript objects: sequences of [k |-> key, v |-> value] with distinct keys *)

EmptyObj == << >>

Keys(o) == {o[i].k : i \in DOMAIN o}

Has(o, key) == key \in Keys(o)

Get(o, key) == o[CHOOSE i \in DOMAIN o : o[i].k = key].v

\* o[key] = val
Put(o, key, val) ==
  IF Has(o, key)
    THEN [i \in DOMAIN o |-> IF o[i].k = key THEN [k |-> key, v |-> val] ELSE o[i]]
    ELSE Append(o, [k |-> key, v |-> val])

\* $.extend(target, src): every own key of src is assigned to target
RECURSIVE ExtendFrom(_, _, _)
ExtendFrom(target, src, i) ==
  IF i > Len(src) THEN target
  ELSE ExtendFrom(Put(target, src[i].k, src[i].v), src, i + 1)

Extend(target, src) == ExtendFrom(target, src, 1)

\* $.inArray(x, arr): the 0-based index of x in arr, or -1
inArray(x, arr) ==
  IF \E i \in DOMAIN arr : arr[i] = x
    THEN (CHOOSE i \in DOMAIN arr : arr[i] = x /\ \A j \in 1..(i - 1) : arr[j] # x) - 1
    ELSE -1

-----------------------------------------------------------------------------
(* JSON texts: sequences of tokens [t |-> kind, s |-> string content] *)

Tok(kind) == [t |-> kind, s |-> ""]

Str(x) == [t |-> "str", s |-> x]

RECURSIVE StringifyFrom(_, _)
StringifyFrom(o, i) ==
  IF i > Len(o) THEN << >>
  ELSE (IF i > 1 THEN <<Tok(",")>> ELSE << >>)
       \o <<Str(o[i].k), Tok(":"), Str(o[i].v)>>
       \o StringifyFrom(o, i + 1)

\* JSON.stringify of an object whose values are strings
JSONstringify(o) == <<Tok("{")>> \o StringifyFrom(o, 1) \o <<Tok("}")>>

ParseFail == [ok |-> FALSE, val |-> << >>, next |-> 0]

\* the elements of an array of strings, from the token after "[" or ","
RECURSIVE ParseStrings(_, _, _)
ParseStrings(toks, i, acc) ==
  IF i + 1 > Len(toks) \/ toks[i].t # "str" THEN ParseFail
  ELSE IF toks[i + 1].t = "]"
    THEN [ok |-> TRUE, val |-> Append(acc, toks[i].s), next |-> i + 2]
  ELSE IF toks[i + 1].t = ","
    THEN ParseStrings(toks, i + 2, Append(acc, toks[i].s))
  ELSE ParseFail

ParseArray(toks, i) ==
  IF i + 1 > Len(toks) \/ toks[i].t # "[" THEN ParseFail
  ELSE IF toks[i + 1].t = "]" THEN [ok |-> TRUE, val |-> << >>, next |-> i + 2]
  ELSE ParseStrings(toks, i + 1, << >>)

\* a member value: a string or an array of strings
ParseValue(toks, i) ==
  IF i > Len(toks) THEN ParseFail
  ELSE IF toks[i].t = "str" THEN [ok |-> TRUE, val |-> toks[i].s, next |-> i + 1]
  ELSE ParseArray(toks, i)

\* the members "key": value of an object, up to the closing brace that must
\* end the text
RECURSIVE ParseMembers(_, _, _)
ParseMembers(toks, i, acc) ==
  IF i + 1 > Len(toks) \/ toks[i].t # "str" \/ toks[i + 1].t # ":" THEN ParseFail
  ELSE LET a == ParseValue(toks, i + 2) IN
    IF ~a.ok \/ a.next > Len(toks) THEN ParseFail
    ELSE IF toks[a.next].t = "}"
      THEN [ok |-> a.next = Len(toks), val |-> Put(acc, toks[i].s, a.val), next |-> a.next + 1]
    ELSE IF toks[a.next].t = ","
      THEN ParseMembers(toks, a.next + 1, Put(acc, toks[i].s, a.val))
    ELSE ParseFail

Thrown == [thrown |-> TRUE, type |-> "undefined", obj |-> EmptyObj]

Parsed(type, obj) == [thrown |-> FALSE, type |-> type, obj |-> obj]

\* $.parseJSON: the parsed value (its typeof, null apart, and its members when
\* it is an object), or an exception on a text that is not JSON
parseJSON(toks) ==
  IF Len(toks) = 1 /\ toks[1].t = "null" THEN Parsed("null", EmptyObj)
  ELSE IF Len(toks) = 1 /\ toks[1].t = "str" THEN Parsed("string", EmptyObj)
  ELSE IF Len(toks) = 1 /\ toks[1].t = "num" THEN Parsed("number", EmptyObj)
  ELSE IF Len(toks) = 2 /\ toks[1].t = "{" /\ toks[2].t = "}" THEN Parsed("object", EmptyObj)
  ELSE IF Len(toks) > 2 /\ toks[1].t = "{"
    THEN LET m == ParseMembers(toks, 2, EmptyObj) IN
         IF m.ok THEN Parsed("object", m.val) ELSE Thrown
  ELSE Thrown

-----------------------------------------------------------------------------
(* The form, its options and the transport: the sets the inputs are drawn from *)

FieldNames == {"username", "password"}      \* names of the form's DOM fields
HandlerNames == {"password", "token"}       \* names that may have a field handler
Names == FieldNames \cup HandlerNames
Values == {"abc", ""}                       \* values a DOM field may hold
Capabilities == {"clear", "error", "data"}  \* optional members of a field handler

FormALL == "__all__"

DefaultTimeout == 30000

\* the value fieldHandlers[name].data() returns, and the value of a key of
\* settings.data
HandlerValue == "from-handler"
StaticValue == "from-settings"

RECURSIVE SeqsUpTo(_, _)
SeqsUpTo(S, n) ==
  IF n = 0 THEN {<< >>}
  ELSE LET shorter == SeqsUpTo(S, n - 1) IN
       shorter \cup {Append(q, x) : q \in shorter, x \in S}

FormDatas == SeqsUpTo([name : FieldNames, value : Values], MaxFields)

ExcludeLists ==
  {<< >>} \cup {<<n>> : n \in FieldNames}
          \cup {q \in FieldNames \X FieldNames : q[1] # q[2]}

HandlerObjs ==
  {EmptyObj}
    \cup {<<[k |-> n, v |-> c]>> : n \in HandlerNames, c \in SUBSET Capabilities}
    \cup {<<[k |-> "password", v |-> c], [k |-> "token", v |-> d]>> :
            c \in SUBSET Capabilities, d \in SUBSET Capabilities}

StaticDatas ==
  {EmptyObj, <<[k |-> "username", v |-> StaticValue]>>,
   <<[k |-> "token", v |-> StaticValue]>>,
   <<[k |-> "username", v |-> StaticValue], [k |-> "token", v |-> StaticValue]>>}

\* where settings.formErrorTarget points: nowhere (null), at an element inside
\* the form, or at an element outside of it
ErrorTargets == {"null", "inside", "outside"}

Settings(exclude, data, disable, target, handlers) ==
  [url |-> "/endpoint", type |-> "POST", excludeFields |-> exclude, data |-> data,
   timeout |-> DefaultTimeout, disableSubmit |-> disable, formErrorTarget |-> target,
   fieldHandlers |-> handlers]

\* what the transport may report to the error callback
Statuses == {0, 400}
StatusTexts == {"error", "timeout", "abort", "parsererror"}

BodyMalformed == <<Tok("<html>")>>
BodyNull == <<Tok("null")>>
BodyFieldErrors ==
  <<Tok("{"), Str("password"), Tok(":"), Tok("["), Str("too short"), Tok("]"), Tok("}")>>
BodyFormErrors ==
  <<Tok("{"), Str(FormALL), Tok(":"), Tok("["), Str("Invalid credentials"), Tok("]"), Tok("}")>>

Bodies == {BodyMalformed, BodyNull, BodyFieldErrors, BodyFormErrors}

BodyEmptyObject == <<Tok("{"), Tok("}")>>
BodySaved == <<Tok("{"), Str("status"), Tok(":"), Str("saved"), Tok("}")>>

\* the bodies of successful responses
SuccessBodies == {BodyEmptyObject, BodySaved}

NoResponse == [id |-> 0, ok |-> TRUE, status |-> 0, statusText |-> "", responseText |-> << >>]

-----------------------------------------------------------------------------
(* Calls, as the logs record them *)

\* op: the function called; key: the field name or failure reason it is given;
\* arg: the list of strings it is given; level: the severity; obj: the object
\* it is given
Call(op, key, arg, level, obj) ==
  [op |-> op, key |-> key, arg |-> arg, level |-> level, obj |-> obj]

Plain(op) == Call(op, "", << >>, -1, EmptyObj)

OnField(op, name, arg) == Call(op, name, arg, -1, EmptyObj)

\* the positions of the calls of op in log
Where(log, op) == {i \in DOMAIN log : log[i].op = op}

Count(log, op) == Cardinality(Where(log, op))

-----------------------------------------------------------------------------
(* The form as the callbacks see and change it: a record m of the submit     *)
(* controls, the pending timers, the rendered errors and the calls made      *)

Machine == [submitDisabled |-> submitDisabled, timers |-> timers,
            formBlocks |-> formBlocks, targetBlocks |-> targetBlocks,
            fieldErrors |-> fieldErrors, handlerErrors |-> handlerErrors,
            log |-> << >>]

Log(m, call) == [m EXCEPT !.log = Append(@, call)]

NoFieldError == [errored |-> FALSE, inline |-> << >>]

\* the names of the elements self.find('[name=...]') can match
DomNames == {formData[i].name : i \in DOMAIN formData}

HasHandler(name, cap) ==
  Has(settings.fieldHandlers, name) /\ cap \in Get(settings.fieldHandlers, name)

\* settings.clearFormErrors: removes the blocks found inside the form
clearFormErrors(m) ==
  Log([m EXCEPT !.formBlocks = << >>,
                !.targetBlocks = IF settings.formErrorTarget = "inside" THEN << >> ELSE @],
      Plain("clearFormErrors"))

\* settings.renderFormErrors: one block, prepended to the target or to the form
renderFormErrors(m, errorArray) ==
  Log(IF settings.formErrorTarget # "null"
        THEN [m EXCEPT !.targetBlocks = <<errorArray>> \o @]
        ELSE [m EXCEPT !.formBlocks = <<errorArray>> \o @],
      OnField("renderFormErrors", FormALL, errorArray))

\* settings.clearFieldErrors
clearFieldErrors(m, fieldName) ==
  Log(IF fieldName \in DomNames
        THEN [m EXCEPT !.fieldErrors[fieldName] = NoFieldError]
        ELSE m,
      OnField("clearFieldErrors", fieldName, << >>))

\* settings.renderFieldErrors: nothing is rendered when no element has the name
renderFieldErrors(m, fieldName, errorArray) ==
  Log(IF fieldName \in DomNames
        THEN [m EXCEPT !.fieldErrors[fieldName] =
                [errored |-> TRUE, inline |-> <<errorArray>> \o @.inline]]
        ELSE m,
      OnField("renderFieldErrors", fieldName, errorArray))

\* settings.fieldHandlers[name].clear() and .error(errors), as the comment of
\* fieldHandlers describes them
handlerClear(m, name) ==
  Log([m EXCEPT !.handlerErrors[name] = << >>], OnField("fieldHandlers.clear", name, << >>))

handlerError(m, name, errorArray) ==
  Log([m EXCEPT !.handlerErrors[name] = Append(@, errorArray)],
      OnField("fieldHandlers.error", name, errorArray))

-----------------------------------------------------------------------------
(* Built-in handlers *)

\* settings.prepareData and settings.serializeData, as the defaults define them
prepareData(dataObj) == dataObj

serializeData(data) == JSONstringify(data)

\* the test with the comparison of $.inArray inverted: the listed fields are
\* the ones copied
NotExcluded_inverted(name) == inArray(name, settings.excludeFields) # -1

\* the test that guards the copy of a DOM field into dataObj
NotExcluded(name) ==
  Len(settings.excludeFields) = 0 /\ inArray(name, settings.excludeFields) = -1

\* the loop over formData
RECURSIVE CollectFields(_, _)
CollectFields(dataObj, i) ==
  IF i > Len(formData) THEN dataObj
  ELSE CollectFields(IF NotExcluded(formData[i].name)
                       THEN Put(dataObj, formData[i].name, formData[i].value)
                       ELSE dataObj,
                     i + 1)

\* the $.each over settings.fieldHandlers
RECURSIVE CollectHandlers(_, _)
CollectHandlers(dataObj, i) ==
  IF i > Len(settings.fieldHandlers) THEN dataObj
  ELSE CollectHandlers(IF "data" \in settings.fieldHandlers[i].v
                         THEN Put(dataObj, settings.fieldHandlers[i].k, HandlerValue)
                         ELSE dataObj,
                       i + 1)

getFormData ==
  prepareData(Extend(CollectHandlers(CollectFields(EmptyObj, 1), 1), settings.data))

\* the calls getFormData makes, in order
RECURSIVE DataCalls(_)
DataCalls(i) ==
  IF i > Len(settings.fieldHandlers) THEN << >>
  ELSE (IF "data" \in settings.fieldHandlers[i].v
          THEN <<OnField("fieldHandlers.data", settings.fieldHandlers[i].k, << >>)>>
          ELSE << >>)
       \o DataCalls(i + 1)

getFormDataCalls == <<Plain("getFormData")>> \o DataCalls(1) \o <<Plain("prepareData")>>

\* the loop of beforeSubmitCallback over self.find('[name]')
RECURSIVE ClearFields(_, _)
ClearFields(m, i) ==
  IF i > Len(formData) THEN m
  ELSE ClearFields(IF HasHandler(formData[i].name, "clear")
                     THEN handlerClear(m, formData[i].name)
                     ELSE clearFieldErrors(m, formData[i].name),
                   i + 1)

\* the clear step of beforeSubmitCallback: the form-wide clear, then the loop
clearStep(m) == ClearFields(clearFormErrors(m), 1)

beforeSubmitCallback(m) ==
  LET disabled == IF settings.disableSubmit
                    THEN Log([m EXCEPT !.submitDisabled = TRUE], Plain("disable"))
                    ELSE m
  IN Log(clearStep(disabled), Plain("beforeSubmit"))

\* afterSubmitCallback with the afterSubmit hook inside the disableSubmit test
afterSubmitCallback_hookInsideIf(m) ==
  IF settings.disableSubmit
    THEN Log(Log([m EXCEPT !.timers = @ + 1], Plain("setTimeout")), Plain("afterSubmit"))
    ELSE m

\* afterSubmitCallback without the timer that enables the submit controls
afterSubmitCallback_noTimer(m) == Log(m, Plain("afterSubmit"))

afterSubmitCallback(m) ==
  LET timed == IF settings.disableSubmit
                 THEN Log([m EXCEPT !.timers = @ + 1], Plain("setTimeout"))
                 ELSE m
  IN Log(timed, Plain("afterSubmit"))

\* errorsCallback without the return that ends the __all__ branch: a form-wide
\* entry goes on to the field renderers
RECURSIVE RouteErrors_noReturn(_, _, _)
RouteErrors_noReturn(m, errorObject, i) ==
  IF i > Len(errorObject) THEN m
  ELSE LET k == errorObject[i].k
           v == errorObject[i].v
           form == IF k = FormALL THEN renderFormErrors(m, v) ELSE m
       IN RouteErrors_noReturn(IF HasHandler(k, "error") THEN handlerError(form, k, v)
                               ELSE renderFieldErrors(form, k, v),
                               errorObject, i + 1)

\* the $.each of errorsCallback over the keys of errorObject
RECURSIVE RouteErrors(_, _, _)
RouteErrors(m, errorObject, i) ==
  IF i > Len(errorObject) THEN m
  ELSE LET k == errorObject[i].k
           v == errorObject[i].v
       IN RouteErrors(IF k = FormALL THEN renderFormErrors(m, v)
                      ELSE IF HasHandler(k, "error") THEN handlerError(m, k, v)
                      ELSE renderFieldErrors(m, k, v),
                      errorObject, i + 1)

errorsCallback(m, errorObject) ==
  RouteErrors(Log(m, Call("errorsCallback", "", << >>, -1, errorObject)), errorObject, 1)

-----------------------------------------------------------------------------
(* Helper functions *)

JSfalse == [isObject |-> FALSE, obj |-> EmptyObj]

\* The names bound inside getJSONObject: its parameter. The body reads jqXHR,
\* which neither the function nor the enclosing restForm scope declares, so the
\* read raises a ReferenceError inside the try block (the page is taken to
\* define no global of that name, as jQuery itself defines none).
getJSONObjectLocals(jsonString) == <<[k |-> "jsonString", v |-> jsonString]>>

getJSONObject(jsonString) ==
  LET locals == getJSONObjectLocals(jsonString)
      obj == IF Has(locals, "jqXHR") THEN parseJSON(Get(locals, "jqXHR")) ELSE Thrown
  IN IF obj.thrown THEN JSfalse
     ELSE IF obj.type = "null" \/ obj.type # "object" THEN JSfalse
     ELSE [isObject |-> TRUE, obj |-> obj.obj]

-----------------------------------------------------------------------------
(* The handler on the submit listener and the callbacks of its request *)

ConnectionLost == "Internet connection Lost"

RECURSIVE LogAll(_, _)
LogAll(m, calls) ==
  IF calls = << >> THEN m ELSE LogAll(Log(m, Head(calls)), Tail(calls))

\* the handler with beforeSubmitCallback called before the data is collected
submitHandler_hookFirst(m) ==
  LogAll(beforeSubmitCallback(Log(m, Plain("stopPropagation"))),
         getFormDataCalls \o <<Plain("serializeData")>>)

\* the handler up to the $.ajax call: the form it leaves
submitHandler(m) ==
  beforeSubmitCallback(
    LogAll(m, <<Plain("stopPropagation")>> \o getFormDataCalls \o <<Plain("serializeData")>>))

\* the 'data' option of the request the handler issues
submitData == serializeData(getFormData)

\* the success callback with settings.success called before afterSubmitCallback
successCallback_successFirst(m, resp) ==
  afterSubmitCallback(Log(m, Call("success", "", << >>, -1, resp)))

\* success: function (resp)
successCallback(m, resp) ==
  Log(afterSubmitCallback(m), Call("success", "", << >>, -1, resp))

\* the error callback without the test of jqXHR.status
errorCallback_noStatusTest(m, jqXHR, statusText) ==
  LET after == afterSubmitCallback(m)
      errors == getJSONObject(jqXHR.responseText)
      normal == IF errors.isObject
                  THEN Log(errorsCallback(after, errors.obj),
                           Call("afterError", statusText, << >>, 0, EmptyObj))
                  ELSE after
      other == Log(errorsCallback(normal, <<[k |-> FormALL, v |-> <<statusText>>]>>),
                   Call("afterError", statusText, << >>, 2, EmptyObj))
  IN LogAll(other, <<Plain("console.log"), Plain("console.log")>>)

\* the error callback with a break under case 'timeout': a timeout is logged
\* and not rendered
errorCallback_timeoutBreaks(m, jqXHR, statusText) ==
  LET after == afterSubmitCallback(m)
      errors == getJSONObject(jqXHR.responseText)
      normal == IF errors.isObject
                  THEN Log(errorsCallback(after, errors.obj),
                           Call("afterError", statusText, << >>, 0, EmptyObj))
                  ELSE after
      other == IF jqXHR.status = 0
                 THEN Log(errorsCallback(normal, <<[k |-> FormALL, v |-> <<ConnectionLost>>]>>),
                          Call("afterError", statusText, << >>, 1, EmptyObj))
               ELSE IF statusText = "timeout" THEN normal
               ELSE Log(errorsCallback(normal, <<[k |-> FormALL, v |-> <<statusText>>]>>),
                        Call("afterError", statusText, << >>, 2, EmptyObj))
  IN LogAll(other, <<Plain("console.log"), Plain("console.log")>>)

\* the error callback with settings.afterError called before the errors are
\* routed
errorCallback_afterErrorFirst(m, jqXHR, statusText) ==
  LET after == afterSubmitCallback(m)
      errors == getJSONObject(jqXHR.responseText)
      normal == IF errors.isObject
                  THEN errorsCallback(Log(after, Call("afterError", statusText, << >>, 0, EmptyObj)),
                                      errors.obj)
                  ELSE after
      other == IF jqXHR.status = 0
                 THEN errorsCallback(Log(normal, Call("afterError", statusText, << >>, 1, EmptyObj)),
                                     <<[k |-> FormALL, v |-> <<ConnectionLost>>]>>)
                 ELSE errorsCallback(Log(normal, Call("afterError", statusText, << >>, 2, EmptyObj)),
                                     <<[k |-> FormALL, v |-> <<statusText>>]>>)
  IN LogAll(other, <<Plain("console.log"), Plain("console.log")>>)

\* error: function (jqXHR, statusText)
errorCallback(m, jqXHR, statusText) ==
  LET after == afterSubmitCallback(m)
      errors == getJSONObject(jqXHR.responseText)
      normal == IF errors.isObject
                  THEN Log(errorsCallback(after, errors.obj),
                           Call("afterError", statusText, << >>, 0, EmptyObj))
                  ELSE after
      other == IF jqXHR.status = 0
                 THEN Log(errorsCallback(normal, <<[k |-> FormALL, v |-> <<ConnectionLost>>]>>),
                          Call("afterError", statusText, << >>, 1, EmptyObj))
                 ELSE Log(errorsCallback(normal, <<[k |-> FormALL, v |-> <<statusText>>]>>),
                          Call("afterError", statusText, << >>, 2, EmptyObj))
  IN LogAll(other, <<Plain("console.log"), Plain("console.log")>>)

\* the options of the $.ajax call
ajaxOptions(data) ==
  [url |-> settings.url, type |-> settings.type, timeout |-> settings.timeout,
   contentType |-> "application/json", dataType |-> "json", data |-> data]

\* the variables a callback leaves as the form m
Leaves(m) ==
  /\ submitDisabled' = m.submitDisabled
  /\ timers' = m.timers
  /\ formBlocks' = m.formBlocks
  /\ targetBlocks' = m.targetBlocks
  /\ fieldErrors' = m.fieldErrors
  /\ handlerErrors' = m.handlerErrors

\* A submit event reaches the handler: by a click on a submit control, which
\* a disabled control does not deliver, or by a script (self.submit()).
Submit(trigger) ==
  /\ nSubmits < MaxSubmits
  /\ trigger = "click" => ~submitDisabled
  /\ LET m == submitHandler(Machine)
         id == Len(sent) + 1
     IN /\ Leaves(m)
        /\ cycleLog' = Append(m.log, Call("ajax", settings.url, << >>, -1, EmptyObj))
        /\ outstanding' = outstanding \cup {id}
        /\ sent' = Append(sent, ajaxOptions(submitData))
        /\ hooks' = [hooks EXCEPT !.beforeSubmit = @ + Count(m.log, "beforeSubmit")]
  /\ nSubmits' = nSubmits + 1
  /\ UNCHANGED <<settings, formData, doneLog, response, succeeded>>

\* The transport completes request id with a successful response: with
\* dataType 'json' the success callback is given the parsed body.
AjaxSuccess(id, body) ==
  /\ id \in outstanding
  /\ outstanding' = outstanding \ {id}
  /\ response' = [id |-> id, ok |-> TRUE, status |-> 200, statusText |-> "success",
                  responseText |-> body]
  /\ LET m == successCallback(Machine, parseJSON(body).obj)
     IN /\ Leaves(m)
        /\ doneLog' = m.log
        /\ hooks' = [hooks EXCEPT !.afterSubmit = @ + Count(m.log, "afterSubmit")]
        /\ succeeded' = IF Count(m.log, "success") > 0 THEN succeeded \cup {id} ELSE succeeded
  /\ UNCHANGED <<settings, formData, sent, nSubmits, cycleLog>>

\* the failure of a request followed by an automatic retry: the same options
\* are sent again (as long as the model's bound leaves room for a request)
AjaxError_retry(id, status, statusText, body) ==
  /\ id \in outstanding
  /\ LET jqXHR == [status |-> status, responseText |-> body]
         m == errorCallback(Machine, jqXHR, statusText)
     IN /\ Leaves(m)
        /\ doneLog' = m.log
        /\ hooks' = [hooks EXCEPT !.afterSubmit = @ + Count(m.log, "afterSubmit")]
        /\ succeeded' = succeeded
  /\ response' = [id |-> id, ok |-> FALSE, status |-> status, statusText |-> statusText,
                  responseText |-> body]
  /\ IF Len(sent) <= MaxSubmits
       THEN /\ sent' = Append(sent, sent[id])
            /\ outstanding' = (outstanding \ {id}) \cup {Len(sent) + 1}
       ELSE /\ sent' = sent
            /\ outstanding' = outstanding \ {id}
  /\ UNCHANGED <<settings, formData, nSubmits, cycleLog>>

\* The transport completes request id with a failure.
AjaxError(id, status, statusText, body) ==
  /\ id \in outstanding
  /\ outstanding' = outstanding \ {id}
  /\ response' = [id |-> id, ok |-> FALSE, status |-> status, statusText |-> statusText,
                  responseText |-> body]
  /\ LET jqXHR == [status |-> status, responseText |-> body]
         m == errorCallback(Machine, jqXHR, statusText)
     IN /\ Leaves(m)
        /\ doneLog' = m.log
        /\ hooks' = [hooks EXCEPT !.afterSubmit = @ + Count(m.log, "afterSubmit")]
        /\ succeeded' = IF Count(m.log, "success") > 0 THEN succeeded \cup {id} ELSE succeeded
  /\ UNCHANGED <<settings, formData, sent, nSubmits, cycleLog>>

\* A timer set by afterSubmitCallback fires: the submit controls are enabled.
EnableSubmit ==
  /\ timers > 0
  /\ timers' = timers - 1
  /\ submitDisabled' = FALSE
  /\ UNCHANGED <<settings, formData, outstanding, sent, nSubmits, formBlocks, targetBlocks,
                 fieldErrors, handlerErrors, cycleLog, doneLog, response,
                 succeeded, hooks>>

-----------------------------------------------------------------------------
(* The submission lifecycle *)

\* the form of the scenarios: username "abc" and an empty password
ScenarioForm == <<[name |-> "username", value |-> "abc"], [name |-> "password", value |-> ""]>>

CustomField == <<[k |-> "token", v |-> Capabilities]>>

\* the lifecycle keeps the default (empty) exclusion list: the collection of the
\* data under every exclusion list is SpecCollect's
LifecycleSettings ==
  {Settings(<< >>, EmptyObj, d, t, h) :
     d \in BOOLEAN, t \in ErrorTargets, h \in {EmptyObj, CustomField}}

Constructed ==
  /\ submitDisabled = FALSE
  /\ outstanding = {}
  /\ sent = << >>
  /\ timers = 0
  /\ nSubmits = 0
  /\ formBlocks = << >>
  /\ targetBlocks = << >>
  /\ fieldErrors = [n \in Names |-> NoFieldError]
  /\ handlerErrors = [n \in Names |-> << >>]
  /\ cycleLog = << >>
  /\ doneLog = << >>
  /\ response = NoResponse
  /\ succeeded = {}
  /\ hooks = [beforeSubmit |-> 0, afterSubmit |-> 0]

Init ==
  /\ settings \in LifecycleSettings
  /\ formData = ScenarioForm
  /\ Constructed

Next ==
  \/ \E trigger \in {"click", "script"} : Submit(trigger)
  \/ \E id \in outstanding, body \in SuccessBodies : AjaxSuccess(id, body)
  \/ \E id \in outstanding, status \in Statuses, statusText \in StatusTexts, body \in Bodies :
       AjaxError(id, status, statusText, body)
  \/ EnableSubmit

Spec == Init /\ [][Next]_vars

\* the transport completes some outstanding request
Complete ==
  \/ \E id \in outstanding, body \in SuccessBodies : AjaxSuccess(id, body)
  \/ \E id \in outstanding, status \in Statuses, statusText \in StatusTexts, body \in Bodies :
       AjaxError(id, status, statusText, body)

\* The lifecycle on a transport that completes every request (settings.timeout
\* bounds each one) and an event loop that runs every timer that is due.
\* It starts from the default settings, with disableSubmit on or off.
InitLive ==
  /\ settings \in {Settings(<< >>, EmptyObj, d, "null", EmptyObj) : d \in BOOLEAN}
  /\ formData = ScenarioForm
  /\ Constructed

SpecLive == InitLive /\ [][Next]_vars /\ WF_vars(Complete) /\ WF_vars(EnableSubmit)

-----------------------------------------------------------------------------
(* Data collection on its own: one submit event on any form, exclusion list, *)
(* field handlers and static data                                            *)

CollectHandlerObjs ==
  {h \in HandlerObjs : \A i \in DOMAIN h : h[i].v \in {{}, {"data"}, Capabilities}}

InitCollect ==
  /\ settings \in {Settings(x, d, TRUE, "null", h) :
                     x \in ExcludeLists, d \in StaticDatas, h \in CollectHandlerObjs}
  /\ formData \in FormDatas
  /\ Constructed

Collect ==
  /\ nSubmits = 0
  /\ Submit("click")

SpecCollect == InitCollect /\ [][Collect]_vars

\* what the server reads from the body of request id
Payload(id) == parseJSON(sent[id].data).obj

-----------------------------------------------------------------------------
(* Error routing on its own: errorsCallback on any ErrorPayload *)

ErrorLists == {<<"too short">>, <<"required", "too short">>}

ErrorPayloads ==
  {p \in SeqsUpTo([k : Names \cup {FormALL}, v : ErrorLists], MaxKeys) :
     \A i \in DOMAIN p, j \in DOMAIN p : p[i].k = p[j].k => i = j}

RouteHandlerObjs ==
  {h \in HandlerObjs : \A i \in DOMAIN h : h[i].v \in {{}, {"error"}, {"clear", "data"}}}

InitRoute ==
  /\ settings \in {Settings(<< >>, EmptyObj, TRUE, t, h) :
                     t \in {"null", "outside"}, h \in RouteHandlerObjs}
  /\ formData \in {<< >>, ScenarioForm}
  /\ Constructed

\* errorsCallback(errorObject), once, on a form without errors
Route(errorObject) ==
  /\ doneLog = << >>
  /\ LET m == errorsCallback(Machine, errorObject)
     IN /\ Leaves(m)
        /\ doneLog' = m.log
  /\ UNCHANGED <<settings, formData, outstanding, sent, nSubmits, cycleLog, response,
                 succeeded, hooks>>

NextRoute == \E errorObject \in ErrorPayloads : Route(errorObject)

SpecRoute == InitRoute /\ [][NextRoute]_vars

-----------------------------------------------------------------------------
(* The clear step on its own: on the errors errorsCallback has rendered, the *)
(* clear step of beforeSubmitCallback runs up to twice                        *)

\* the field handlers that render errors also clear them
ClearHandlerObjs ==
  {h \in HandlerObjs : \A i \in DOMAIN h : h[i].v \in {{}, {"clear", "error"}}}

InitClear ==
  /\ settings \in {Settings(<< >>, EmptyObj, TRUE, t, h) :
                     t \in ErrorTargets, h \in ClearHandlerObjs}
  /\ formData \in {<< >>, ScenarioForm}
  /\ Constructed

\* how often the clear step has run
Clears == Count(cycleLog, "clearFormErrors")

ClearStep ==
  /\ doneLog # << >>
  /\ Clears < 2
  /\ LET m == clearStep(Machine)
     IN /\ Leaves(m)
        /\ cycleLog' = cycleLog \o m.log
  /\ UNCHANGED <<settings, formData, outstanding, sent, nSubmits, doneLog, response,
                 succeeded, hooks>>

NextClear ==
  \/ \E errorObject \in ErrorPayloads : Route(errorObject)
  \/ ClearStep

SpecClear == InitClear /\ [][NextClear]_vars

-----------------------------------------------------------------------------
(* Properties *)

\* the latest $.ajax callback was the error callback
Failed == response.id # 0 /\ ~response.ok

ParsesAsObject(text) == ~parseJSON(text).thrown /\ parseJSON(text).type = "object"

FieldRenderOps == {"renderFieldErrors", "fieldHandlers.error"}

RenderOps == FieldRenderOps \cup {"renderFormErrors"}

\* C1: with disableSubmit enabled, at most one request is outstanding in every
\* reachable state, whatever triggers the submit events.
C1_SingleFlight == settings.disableSubmit => Cardinality(outstanding) <= 1

\* C2: a failed request whose body parses as a JSON object has that object
\* passed to errorsCallback, and afterError is called with level 0.
C2_StructuredFailure ==
  (Failed /\ ParsesAsObject(response.responseText)) =>
    /\ \E i \in Where(doneLog, "errorsCallback") :
         doneLog[i].obj = parseJSON(response.responseText).obj
    /\ \E i \in Where(doneLog, "afterError") : doneLog[i].level = 0

\* the keys of the parsed body of the failed response
BodyKeys == Keys(parseJSON(response.responseText).obj)

\* C3: a failed response runs errorsCallback once and afterError once; when its
\* body is an object of field keys only, each of these fields has its errors
\* rendered and no form-wide block is rendered.
C3_OneClassification ==
  Failed =>
    /\ Count(doneLog, "errorsCallback") = 1
    /\ Count(doneLog, "afterError") = 1
    /\ (ParsesAsObject(response.responseText) /\ BodyKeys # {} /\ FormALL \notin BodyKeys) =>
         /\ \A k \in BodyKeys : \E i \in DOMAIN doneLog :
              doneLog[i].op \in FieldRenderOps /\ doneLog[i].key = k
         /\ Count(doneLog, "renderFormErrors") = 0

ConnectivityPayload == <<[k |-> FormALL, v |-> <<ConnectionLost>>]>>

\* C4: a failure with status 0 routes {__all__: [connection lost]} to the
\* form-wide renderer, renders no field error, and calls afterError with level 1.
C4_Connectivity ==
  (Failed /\ response.status = 0) =>
    /\ \E i \in Where(doneLog, "errorsCallback") :
         /\ doneLog[i].obj = ConnectivityPayload
         /\ i + 2 <= Len(doneLog)
         /\ doneLog[i + 1] = OnField("renderFormErrors", FormALL, <<ConnectionLost>>)
         /\ doneLog[i + 2] = Call("afterError", response.statusText, << >>, 1, EmptyObj)
    /\ \A i \in DOMAIN doneLog : doneLog[i].op \notin FieldRenderOps

C4_Witness ==
  /\ Failed /\ response.status = 0
  /\ Count(doneLog, "renderFormErrors") = 1
  /\ \E i \in Where(doneLog, "afterError") : doneLog[i].level = 1

\* C5: a failure with a non-zero status and a body that is not a JSON object
\* routes {__all__: [statusText]} to the form-wide renderer and calls afterError
\* with level 2.
C5_Protocol ==
  (Failed /\ response.status # 0 /\ ~ParsesAsObject(response.responseText)) =>
    \E i \in Where(doneLog, "errorsCallback") :
      /\ doneLog[i].obj = <<[k |-> FormALL, v |-> <<response.statusText>>]>>
      /\ i + 2 <= Len(doneLog)
      /\ doneLog[i + 1] = OnField("renderFormErrors", FormALL, <<response.statusText>>)
      /\ doneLog[i + 2] = Call("afterError", response.statusText, << >>, 2, EmptyObj)

C5_Witness ==
  /\ Failed /\ response.status = 400 /\ response.statusText = "timeout"
  /\ response.responseText = BodyMalformed
  /\ \E i \in Where(doneLog, "afterError") : doneLog[i].level = 2

\* the one renderer call the router owes to a key of the payload
RendererFor(entry) ==
  IF entry.k = FormALL THEN OnField("renderFormErrors", FormALL, entry.v)
  ELSE IF Has(settings.fieldHandlers, entry.k)
          /\ "error" \in Get(settings.fieldHandlers, entry.k)
    THEN OnField("fieldHandlers.error", entry.k, entry.v)
  ELSE OnField("renderFieldErrors", entry.k, entry.v)

\* C6: errorsCallback(P) calls, for every key k of P, exactly one renderer
\* exactly once with P[k]: the form-wide renderer for __all__, else the
\* handler's error() when there is one, else the default field renderer.
C6_Routing ==
  \A i \in Where(doneLog, "errorsCallback") :
    LET P == doneLog[i].obj
        after == i + Len(P) + 1
    IN /\ i + Len(P) <= Len(doneLog)
       /\ \A j \in DOMAIN P : doneLog[i + j] = RendererFor(P[j])
       /\ after <= Len(doneLog) => doneLog[after].op \notin RenderOps

C6_Witness ==
  /\ Count(doneLog, "errorsCallback") = 1
  /\ Count(doneLog, "fieldHandlers.error") = 1
  /\ Count(doneLog, "renderFieldErrors") = 1
  /\ fieldErrors["username"].errored

ExcludedNames == {settings.excludeFields[i] : i \in DOMAIN settings.excludeFields}

DomValues(n) == {formData[i].value : i \in {j \in DOMAIN formData : formData[j].name = n}}

\* how many members of the JSON text have the key n
KeyCount(toks, n) ==
  Cardinality({i \in DOMAIN toks : i < Len(toks) /\ toks[i] = Str(n) /\ toks[i + 1] = Tok(":")})

Carries(id, n, vals) ==
  /\ KeyCount(sent[id].data, n) = 1
  /\ Has(Payload(id), n)
  /\ Get(Payload(id), n) \in vals

\* C7: the collected payload maps each name to its static value if
\* settings.data has it, else to the handler's data() value, else to the DOM
\* value of the non-excluded field; each such name appears once.
C7_Precedence ==
  \A id \in DOMAIN sent : \A n \in Names :
    IF Has(settings.data, n) THEN Carries(id, n, {Get(settings.data, n)})
    ELSE IF HasHandler(n, "data") THEN Carries(id, n, {HandlerValue})
    ELSE (n \in DomNames /\ n \notin ExcludedNames) => Carries(id, n, DomValues(n))

\* C8: a DOM field (not overridden by a handler or by static data) has its
\* value in the collected payload if and only if its name is not in the
\* exclusion list.
C8_Exclusion ==
  \A id \in DOMAIN sent : \A n \in DomNames :
    (~Has(settings.data, n) /\ ~HasHandler(n, "data")) =>
      (Carries(id, n, DomValues(n)) <=> n \notin ExcludedNames)

ClearOps == {"disable", "clearFormErrors", "clearFieldErrors", "fieldHandlers.clear"}

CollectOps == {"getFormData", "fieldHandlers.data", "prepareData", "serializeData"}

At(log, ops) == {i \in DOMAIN log : log[i].op \in ops}

\* every call of ops1 in log precedes every call of ops2
Precede(log, ops1, ops2) == \A i \in At(log, ops1), j \in At(log, ops2) : i < j

C10_DisabledWhileOutstanding ==
  (settings.disableSubmit /\ outstanding # {}) => submitDisabled

\* no request is outstanding and the submit controls are enabled
Idle == outstanding = {} /\ ~submitDisabled

\* C11: after every completion of a request the form eventually has no request
\* outstanding and its submit controls enabled, and a click then starts a
\* new cycle (as long as the model's bound on submit events allows one).
C11_ReturnToIdle ==
  /\ (response.id # 0) ~> Idle
  /\ [](Idle /\ nSubmits < MaxSubmits => ENABLED Submit("click"))

C11_Witness ==
  /\ settings.disableSubmit
  /\ Failed
  /\ Idle /\ timers = 0
  /\ nSubmits = 2 /\ hooks.afterSubmit = 2

\* the latest $.ajax callback was the success callback
Succeeded == response.id # 0 /\ response.ok

ErrorOps == RenderOps \cup {"errorsCallback", "afterError"}

\* C12: on a successful response the afterSubmit hook runs once and before
\* success, success is called once with the response, and neither an error
\* renderer nor afterError is called.
C12_SuccessPath ==
  Succeeded =>
    /\ Count(doneLog, "afterSubmit") = 1
    /\ Count(doneLog, "success") = 1
    /\ Precede(doneLog, {"afterSubmit"}, {"success"})
    /\ \A i \in Where(doneLog, "success") :
         doneLog[i].obj = parseJSON(response.responseText).obj
    /\ At(doneLog, ErrorOps) = {}
    /\ response.id \in succeeded

C12_Witness ==
  /\ Succeeded
  /\ response.responseText = BodySaved
  /\ Count(doneLog, "setTimeout") = 1
  /\ succeeded = {response.id}

\* C13: on a failed response the afterSubmit hook runs first, then the payload
\* is routed through errorsCallback and rendered, then afterError is called;
\* success is not called for that response.
C13_FailurePath ==
  Failed =>
    /\ Count(doneLog, "afterSubmit") = 1
    /\ At(doneLog, {"errorsCallback"}) # {}
    /\ At(doneLog, {"afterError"}) # {}
    /\ Precede(doneLog, {"afterSubmit"}, ErrorOps)
    /\ Precede(doneLog, RenderOps \cup {"errorsCallback"}, {"afterError"})
    /\ \A i \in At(doneLog, RenderOps) : \E j \in Where(doneLog, "errorsCallback") : j < i
    /\ Count(doneLog, "success") = 0
    /\ response.id \notin succeeded

C13_Witness ==
  /\ Failed
  /\ response.status = 400 /\ response.responseText = BodyFormErrors
  /\ Count(doneLog, "renderFormErrors") = 1
  /\ Count(doneLog, "afterError") = 1

\* some error is displayed: a form-wide block, a field marker or inline
\* message, or what a field handler has rendered
ErrorsDisplayed ==
  \/ formBlocks # << >>
  \/ targetBlocks # << >>
  \/ \E n \in Names : fieldErrors[n].errored \/ fieldErrors[n].inline # << >>
  \/ \E n \in Names : handlerErrors[n] # << >>

\* C14: at the moment a request is dispatched no error rendered by an earlier
\* cycle is still displayed, wherever the form-wide errors are prepended.
C14_StaleErrorsCleared == [][nSubmits' = nSubmits + 1 => ~ErrorsDisplayed']_vars

\* C15: every handled submit event issues exactly one request, with the
\* configured URL, method and timeout and the payload serialized in that cycle;
\* no request is issued without a submit event (no automatic retry).
C15_OneRequestPerSubmit ==
  /\ Len(sent) = nSubmits
  /\ outstanding \subseteq DOMAIN sent
  /\ cycleLog # << >> => Count(cycleLog, "ajax") = 1
  /\ \A id \in DOMAIN sent :
       /\ sent[id].url = settings.url
       /\ sent[id].type = settings.type
       /\ sent[id].timeout = settings.timeout
       /\ sent[id].data = serializeData(getFormData)
       /\ ParsesAsObject(sent[id].data)

C15_Witness ==
  /\ nSubmits = 2 /\ Len(sent) = 2
  /\ Failed /\ response.id = 2
  /\ outstanding = {}
  /\ sent[2].timeout = DefaultTimeout

\* the error display state
Display == <<formBlocks, targetBlocks, fieldErrors, handlerErrors>>

\* C16: the clear step run twice in a row yields the same error-free display
\* state as the clear step run once.
C16_ClearIdempotent ==
  [][Clears' > Clears => /\ ~ErrorsDisplayed'
                         /\ Clears = 1 => Display' = Display]_vars

\* the idempotence alone: the second run of the clear step changes nothing
C16_SecondClearChangesNothing == [][Clears = 1 /\ Clears' = 2 => Display' = Display]_vars

\* C17 as stated: a name of the exclusion list is never a key of the payload.
C17_ExcludedNeverSent ==
  \A id \in DOMAIN sent : \A n \in ExcludedNames : ~Has(Payload(id), n)

\* C17 amended: a name of the exclusion list never carries its DOM value; it is
\* a key of the payload exactly when settings.data or a field handler's data()
\* supplies it, and then with that value.
C17_ExcludedOnlySupplied ==
  \A id \in DOMAIN sent : \A n \in ExcludedNames :
    IF Has(settings.data, n) THEN Carries(id, n, {Get(settings.data, n)})
    ELSE IF HasHandler(n, "data") THEN Carries(id, n, {HandlerValue})
    ELSE ~Has(Payload(id), n)

C17_Witness ==
  /\ Len(sent) = 1
  /\ settings.excludeFields = <<"password">>
  /\ "password" \in DomNames
  /\ HasHandler("password", "data")
  /\ Get(Payload(1), "password") = HandlerValue

\* C18: in every submission cycle every field handler that has clear() has it
\* called before the request is dispatched, also when no element of the form
\* has the handler's name.
C18_HandlersCleared ==
  cycleLog # << >> =>
    \A n \in Names :
      HasHandler(n, "clear") =>
        \E i \in Where(cycleLog, "fieldHandlers.clear") :
          /\ cycleLog[i].key = n
          /\ \A j \in Where(cycleLog, "ajax") : i < j

\* C19: whenever success was called for the most recently started submission
\* and no request is outstanding, no error is displayed.
C19_NoErrorAfterSuccess ==
  (sent # << >> /\ Len(sent) \in succeeded /\ outstanding = {}) => ~ErrorsDisplayed

\* the number of requests whose callback has run
Completed == Len(sent) - Cardinality(outstanding)

\* C20: the afterSubmit hook has run once per completed request and never more
\* often than the beforeSubmit hook, which has run once per submit event; with
\* no request outstanding the two counts are equal.
C20_HooksBalanced ==
  /\ hooks.afterSubmit = Completed
  /\ hooks.afterSubmit <= hooks.beforeSubmit
  /\ hooks.beforeSubmit = nSubmits
  /\ outstanding = {} => hooks.afterSubmit = hooks.beforeSubmit

C20_Witness ==
  /\ ~settings.disableSubmit
  /\ hooks = [beforeSubmit |-> 2, afterSubmit |-> 2]
  /\ outstanding = {}
  /\ succeeded = {1}
  /\ Failed

====
